---- MODULE Spec2Model ----
(***************************************************************************)
(* SimpleVector<Type> (simple_vector.h) over the ArrayPtr<Type> buffer     *)
(* owner.  Containers are the named objects of Vecs; buffers live in a     *)
(* heap of slots addressed by buffer ids.  Indices are 0-based as in the   *)
(* source; slot i of buffer b is heap[b][i + 1].                           *)
(***************************************************************************)
EXTENDS Integers, Sequences, FiniteSets, TLC

MaxCap == 4        \* largest capacity_ explored
MaxVal == 1        \* element values are 0..MaxVal
MaxList == 2       \* longest initializer list explored

Values == 0..MaxVal
Vecs == {"a", "b"}
Bufs == 1..(Cardinality(Vecs) + 1)
Null == 0
NoRet == -1
DefaultValue == 0

VARIABLES Type, live, array_, size_, capacity_, heap, last

vars == <<Type, live, array_, size_, capacity_, heap, last>>

\* a maximum that returns its first argument
MaxFirst(x, y) == x

Max(x, y) == IF x >= y THEN x ELSE y

(* ---------------- ArrayPtr: the raw buffer owner ---------------- *)

\* slot count of the block a pointer owns (nullptr owns none)
Allocated(h, p) == IF p = Null THEN 0 ELSE Len(h[p])

InBuf(h, p, i) == 0 <= i /\ i < Allocated(h, p)

\* address handed out by the next allocation
NewId(h) == CHOOSE b \in Bufs : h[b] = <<>> /\ \A o \in Bufs : h[o] = <<>> => b <= o

\* ArrayPtr(size): nullptr for size 0, else a block of size slots of unspecified content
NewPtr(h, n) == IF n = 0 THEN Null ELSE NewId(h)

\* the possible contents of a new block of n slots: unspecified values, except that the
\* first k slots, which the caller assigns before anything reads them, are not enumerated
Fresh(n, k) ==
    {[i \in 1..n |-> IF i <= k THEN DefaultValue ELSE t[i]] : t \in [(k + 1)..n -> Type]}

New(h, fresh) == IF Len(fresh) = 0 THEN h ELSE [h EXCEPT ![NewId(h)] = fresh]

\* ~ArrayPtr: delete[] raw_ptr_
Delete(h, p) == IF p = Null THEN h ELSE [h EXCEPT ![p] = <<>>]

\* what a read of slot i yields: the slot, or g[i] when i is outside the block
Load(h, p, i, g) == IF InBuf(h, p, i) THEN h[p][i + 1] ELSE g[i]

\* a write of slot i; a write outside the block does not land in the block
Store(h, p, i, v) == IF InBuf(h, p, i) THEN [h EXCEPT ![p][i + 1] = v] ELSE h

\* the indices of [first, lst) outside the block of p
Outside(h, p, first, lst) == {i \in first..(lst - 1) : ~InBuf(h, p, i)}

\* does an access to [first, lst) leave the block of p
Strays(h, p, first, lst) == Outside(h, p, first, lst) # {}

\* possible results of reading the out-of-block slots of [first, last)
Garbage(h, p, first, lst) == [Outside(h, p, first, lst) -> Type]

(* ---------------- <algorithm> ---------------- *)

RECURSIVE Move(_, _, _, _, _, _, _)
\* std::move / std::copy (first, last, d_first): ascending element-wise assignment
Move(h, src, first, lst, dst, d, g) ==
    IF first >= lst THEN h
    ELSE Move(Store(h, dst, d, Load(h, src, first, g)), src, first + 1, lst, dst, d + 1, g)

RECURSIVE MoveBackward(_, _, _, _, _, _, _)
\* std::move_backward(first, last, d_last): descending element-wise assignment
MoveBackward(h, src, first, lst, dst, dlast, g) ==
    IF first >= lst THEN h
    ELSE MoveBackward(Store(h, dst, dlast - 1, Load(h, src, lst - 1, g)),
                      src, first, lst - 1, dst, dlast - 1, g)

RECURSIVE Fill(_, _, _, _, _)
\* std::fill / std::for_each assigning v to every slot of [first, last)
Fill(h, p, first, lst, v) ==
    IF first >= lst THEN h
    ELSE Fill(Store(h, p, first, v), p, first + 1, lst, v)

RECURSIVE MoveList(_, _, _, _)
\* std::move(init.begin(), init.end(), begin())
MoveList(h, init, k, dst) ==
    IF k > Len(init) THEN h
    ELSE MoveList(Store(h, dst, k - 1, init[k]), init, k + 1, dst)

(* ---------------- observers ---------------- *)

GetSize(c) == size_[c]
GetCapacity(c) == capacity_[c]
IsEmpty(c) == size_[c] = 0

\* the record of the call that produced the current state: the operation, the container
\* it was invoked on, its other operand, whether it allocated a new block, what it
\* returned, whether it threw, and whether it touched a slot outside a block
Done(op, c, o, realloc, ret, threw, oob) ==
    [op |-> op, self |-> c, other |-> o, realloc |-> realloc,
     ret |-> ret, threw |-> threw, oob |-> oob]

(* ---------------- constructors and destructor ---------------- *)

\* SimpleVector() noexcept = default
Construct(c) ==
    /\ ~live[c]
    /\ live' = [live EXCEPT ![c] = TRUE]
    /\ array_' = [array_ EXCEPT ![c] = Null]
    /\ size_' = [size_ EXCEPT ![c] = 0]
    /\ capacity_' = [capacity_ EXCEPT ![c] = 0]
    /\ last' = Done("Construct", c, c, FALSE, NoRet, FALSE, FALSE)
    /\ UNCHANGED <<Type, heap>>

\* explicit SimpleVector(size_t size)
ConstructSize(c, size) ==
    /\ ~live[c]
    /\ \E fresh \in Fresh(size, size) :
         heap' = Fill(New(heap, fresh), NewPtr(heap, size), 0, size, DefaultValue)
    /\ live' = [live EXCEPT ![c] = TRUE]
    /\ array_' = [array_ EXCEPT ![c] = NewPtr(heap, size)]
    /\ size_' = [size_ EXCEPT ![c] = size]
    /\ capacity_' = [capacity_ EXCEPT ![c] = size]
    /\ last' = Done("ConstructSize", c, c, size > 0, NoRet, FALSE, FALSE)
    /\ UNCHANGED Type

\* explicit SimpleVector(ReserveProxyObj r)
ConstructReserve(c, capacity_to_reserve_) ==
    /\ ~live[c]
    /\ \E fresh \in Fresh(capacity_to_reserve_, 0) : heap' = New(heap, fresh)
    /\ live' = [live EXCEPT ![c] = TRUE]
    /\ array_' = [array_ EXCEPT ![c] = NewPtr(heap, capacity_to_reserve_)]
    /\ size_' = [size_ EXCEPT ![c] = 0]
    /\ capacity_' = [capacity_ EXCEPT ![c] = capacity_to_reserve_]
    /\ last' = Done("ConstructReserve", c, c, capacity_to_reserve_ > 0, NoRet, FALSE, FALSE)
    /\ UNCHANGED Type

\* a fill constructor that fills with Type() as SimpleVector(size_t) does
ConstructFillDefault(c, size, value) ==
    /\ ~live[c]
    /\ \E fresh \in Fresh(size, size) :
         heap' = Fill(New(heap, fresh), NewPtr(heap, size), 0, size, DefaultValue)
    /\ live' = [live EXCEPT ![c] = TRUE]
    /\ array_' = [array_ EXCEPT ![c] = NewPtr(heap, size)]
    /\ size_' = [size_ EXCEPT ![c] = size]
    /\ capacity_' = [capacity_ EXCEPT ![c] = size]
    /\ last' = Done("ConstructFill", c, c, size > 0, NoRet, FALSE, FALSE)
    /\ UNCHANGED Type

\* SimpleVector(size_t size, const Type& value)
ConstructFill(c, size, value) ==
    /\ ~live[c]
    /\ \E fresh \in Fresh(size, size) :
         heap' = Fill(New(heap, fresh), NewPtr(heap, size), 0, size, value)
    /\ live' = [live EXCEPT ![c] = TRUE]
    /\ array_' = [array_ EXCEPT ![c] = NewPtr(heap, size)]
    /\ size_' = [size_ EXCEPT ![c] = size]
    /\ capacity_' = [capacity_ EXCEPT ![c] = size]
    /\ last' = Done("ConstructFill", c, c, size > 0, NoRet, FALSE, FALSE)
    /\ UNCHANGED Type

\* SimpleVector(std::initializer_list<Type> init)
ConstructList(c, init) ==
    /\ ~live[c]
    /\ \E fresh \in Fresh(Len(init), Len(init)) :
         heap' = MoveList(New(heap, fresh), init, 1, NewPtr(heap, Len(init)))
    /\ live' = [live EXCEPT ![c] = TRUE]
    /\ array_' = [array_ EXCEPT ![c] = NewPtr(heap, Len(init))]
    /\ size_' = [size_ EXCEPT ![c] = Len(init)]
    /\ capacity_' = [capacity_ EXCEPT ![c] = Len(init)]
    /\ last' = Done("ConstructList", c, c, Len(init) > 0, NoRet, FALSE, FALSE)
    /\ UNCHANGED Type

\* heap after SimpleVector(const SimpleVector& other) built its block and copied into it
CopyInto(h, other, fresh, g) ==
    Move(New(h, fresh), array_[other], 0, size_[other], NewPtr(h, capacity_[other]), 0, g)

\* did that copy leave the block of other, or its own
CopyStrays(h, other, fresh) ==
    \/ Strays(h, array_[other], 0, size_[other])
    \/ Strays(New(h, fresh), NewPtr(h, capacity_[other]), 0, size_[other])

\* a copy constructor that copies the members, so that both containers own one block
CopyConstructShallow(c, other) ==
    /\ ~live[c]
    /\ live[other]
    /\ live' = [live EXCEPT ![c] = TRUE]
    /\ array_' = [array_ EXCEPT ![c] = array_[other]]
    /\ size_' = [size_ EXCEPT ![c] = size_[other]]
    /\ capacity_' = [capacity_ EXCEPT ![c] = capacity_[other]]
    /\ last' = Done("CopyConstruct", c, other, FALSE, NoRet, FALSE, FALSE)
    /\ UNCHANGED <<Type, heap>>

\* SimpleVector(const SimpleVector& other)
CopyConstruct(c, other) ==
    /\ ~live[c]
    /\ live[other]
    /\ \E fresh \in Fresh(capacity_[other], size_[other]),
          g \in Garbage(heap, array_[other], 0, size_[other]) :
         /\ heap' = CopyInto(heap, other, fresh, g)
         /\ last' = Done("CopyConstruct", c, other, capacity_[other] > 0, NoRet, FALSE,
                         CopyStrays(heap, other, fresh))
    /\ live' = [live EXCEPT ![c] = TRUE]
    /\ array_' = [array_ EXCEPT ![c] = NewPtr(heap, capacity_[other])]
    /\ size_' = [size_ EXCEPT ![c] = size_[other]]
    /\ capacity_' = [capacity_ EXCEPT ![c] = capacity_[other]]
    /\ UNCHANGED Type

\* a move constructor that copies other.size_ instead of exchanging it with 0
MoveConstructKeepsSize(c, other) ==
    /\ ~live[c]
    /\ live[other]
    /\ live' = [live EXCEPT ![c] = TRUE]
    /\ array_' = [array_ EXCEPT ![c] = array_[other], ![other] = Null]
    /\ size_' = [size_ EXCEPT ![c] = size_[other]]
    /\ capacity_' = [capacity_ EXCEPT ![c] = capacity_[other], ![other] = 0]
    /\ last' = Done("MoveConstruct", c, other, FALSE, NoRet, FALSE, FALSE)
    /\ UNCHANGED <<Type, heap>>

\* SimpleVector(SimpleVector&& other) noexcept
MoveConstruct(c, other) ==
    /\ ~live[c]
    /\ live[other]
    /\ live' = [live EXCEPT ![c] = TRUE]
    /\ array_' = [array_ EXCEPT ![c] = array_[other], ![other] = Null]
    /\ size_' = [size_ EXCEPT ![c] = size_[other], ![other] = 0]
    /\ capacity_' = [capacity_ EXCEPT ![c] = capacity_[other], ![other] = 0]
    /\ last' = Done("MoveConstruct", c, other, FALSE, NoRet, FALSE, FALSE)
    /\ UNCHANGED <<Type, heap>>

\* the implicit ~SimpleVector: the array_ member releases its block
Destroy(c) ==
    /\ live[c]
    /\ live' = [live EXCEPT ![c] = FALSE]
    /\ heap' = Delete(heap, array_[c])
    /\ array_' = [array_ EXCEPT ![c] = Null]
    /\ size_' = [size_ EXCEPT ![c] = 0]
    /\ capacity_' = [capacity_ EXCEPT ![c] = 0]
    /\ last' = Done("Destroy", c, c, FALSE, NoRet, FALSE, FALSE)
    /\ UNCHANGED Type

(* ---------------- assignment and swap ---------------- *)

\* SimpleVector tmp(rhs); swap(tmp); and tmp's destructor releasing the old block
AssignFrom(op, c, rhs) ==
    /\ \E fresh \in Fresh(capacity_[rhs], size_[rhs]),
          g \in Garbage(heap, array_[rhs], 0, size_[rhs]) :
         /\ heap' = Delete(CopyInto(heap, rhs, fresh, g), array_[c])
         /\ last' = Done(op, c, rhs, capacity_[rhs] > 0, NoRet, FALSE,
                         CopyStrays(heap, rhs, fresh))
    /\ array_' = [array_ EXCEPT ![c] = NewPtr(heap, capacity_[rhs])]
    /\ size_' = [size_ EXCEPT ![c] = size_[rhs]]
    /\ capacity_' = [capacity_ EXCEPT ![c] = capacity_[rhs]]

\* SimpleVector& operator=(const SimpleVector& rhs)
CopyAssign(c, rhs) ==
    /\ live[c]
    /\ live[rhs]
    /\ IF c # rhs
       THEN AssignFrom("CopyAssign", c, rhs)
       ELSE /\ last' = Done("CopyAssign", c, c, FALSE, NoRet, FALSE, FALSE)
            /\ UNCHANGED <<array_, size_, capacity_, heap>>
    /\ UNCHANGED <<Type, live>>

\* SimpleVector& operator=(SimpleVector&& rhs) noexcept: tmp is built from the lvalue rhs
MoveAssign(c, rhs) ==
    /\ live[c]
    /\ live[rhs]
    /\ AssignFrom("MoveAssign", c, rhs)
    /\ UNCHANGED <<Type, live>>

\* void swap(SimpleVector& other) noexcept
swap(c, other) ==
    /\ live[c]
    /\ live[other]
    /\ array_' = [array_ EXCEPT ![c] = array_[other], ![other] = array_[c]]
    /\ size_' = [size_ EXCEPT ![c] = size_[other], ![other] = size_[c]]
    /\ capacity_' = [capacity_ EXCEPT ![c] = capacity_[other], ![other] = capacity_[c]]
    /\ last' = Done("swap", c, other, FALSE, NoRet, FALSE, FALSE)
    /\ UNCHANGED <<Type, live, heap>>

(* ---------------- modifiers ---------------- *)

\* growth that keeps the old capacity
GrownNot(capacity) == capacity

\* growth by one slot instead of doubling
GrownByOne(capacity) == capacity + 1

\* new_capacity_ of PushBack and Insert
Grown(capacity) == IF capacity = 0 THEN 1 ELSE capacity * 2

\* void PushBack(Type item)
PushBack(c, item) ==
    /\ live[c]
    /\ IF size_[c] = capacity_[c]
       THEN LET new_capacity_ == Grown(capacity_[c])
                new_array_ == NewPtr(heap, new_capacity_)
            IN /\ new_capacity_ <= MaxCap
               /\ \E fresh \in Fresh(new_capacity_, size_[c] + 1),
                     g \in Garbage(heap, array_[c], 0, size_[c]) :
                    LET moved == Move(New(heap, fresh), array_[c], 0, size_[c], new_array_, 0, g)
                        swapped == Delete(moved, array_[c])
                    IN /\ heap' = Store(swapped, new_array_, size_[c], item)
                       /\ last' = Done("PushBack", c, c, TRUE, NoRet, FALSE,
                                       \/ Strays(heap, array_[c], 0, size_[c])
                                       \/ Strays(swapped, new_array_, 0, size_[c] + 1))
               /\ array_' = [array_ EXCEPT ![c] = new_array_]
               /\ capacity_' = [capacity_ EXCEPT ![c] = new_capacity_]
       ELSE /\ heap' = Store(heap, array_[c], size_[c], item)
            /\ last' = Done("PushBack", c, c, FALSE, NoRet, FALSE,
                            ~InBuf(heap, array_[c], size_[c]))
            /\ UNCHANGED <<array_, capacity_>>
    /\ size_' = [size_ EXCEPT ![c] = size_[c] + 1]
    /\ UNCHANGED <<Type, live>>

\* Iterator Insert(ConstIterator pos, Type value), pos == begin() + index_pos
Insert(c, index_pos, value) ==
    /\ live[c]
    /\ 0 <= index_pos /\ index_pos <= size_[c]
    /\ IF size_[c] = capacity_[c]
       THEN LET new_capacity_ == Grown(capacity_[c])
                new_array_ == NewPtr(heap, new_capacity_)
            IN /\ new_capacity_ <= MaxCap
               /\ \E fresh \in Fresh(new_capacity_, size_[c] + 1),
                     g \in Garbage(heap, array_[c], 0, size_[c]) :
                    LET head == Move(New(heap, fresh), array_[c], 0, index_pos, new_array_, 0, g)
                        placed == Store(head, new_array_, index_pos, value)
                        tail == Move(placed, array_[c], index_pos, size_[c],
                                     new_array_, index_pos + 1, g)
                    IN /\ heap' = Delete(tail, array_[c])
                       /\ last' = Done("Insert", c, c, TRUE, index_pos, FALSE,
                                       \/ Strays(heap, array_[c], 0, size_[c])
                                       \/ Strays(head, new_array_, 0, size_[c] + 1))
               /\ array_' = [array_ EXCEPT ![c] = new_array_]
               /\ capacity_' = [capacity_ EXCEPT ![c] = new_capacity_]
       ELSE /\ \E g \in Garbage(heap, array_[c], index_pos, size_[c]) :
                 LET shifted == MoveBackward(heap, array_[c], index_pos, size_[c],
                                             array_[c], size_[c] + 1, g)
                 IN heap' = Store(shifted, array_[c], index_pos, value)
            /\ last' = Done("Insert", c, c, FALSE, index_pos, FALSE,
                            Strays(heap, array_[c], index_pos, size_[c] + 1))
            /\ UNCHANGED <<array_, capacity_>>
    /\ size_' = [size_ EXCEPT ![c] = size_[c] + 1]
    /\ UNCHANGED <<Type, live>>

\* void PopBack() noexcept
PopBack(c) ==
    /\ live[c]
    /\ size_[c] > 0
    /\ size_' = [size_ EXCEPT ![c] = size_[c] - 1]
    /\ last' = Done("PopBack", c, c, FALSE, NoRet, FALSE, FALSE)
    /\ UNCHANGED <<Type, live, array_, capacity_, heap>>

\* Iterator Erase(ConstIterator pos), pos == begin() + index_pos
Erase(c, index_pos) ==
    /\ live[c]
    /\ 0 <= index_pos /\ index_pos < size_[c]
    /\ \E g \in Garbage(heap, array_[c], index_pos + 1, size_[c]) :
         heap' = Move(heap, array_[c], index_pos + 1, size_[c], array_[c], index_pos, g)
    /\ size_' = [size_ EXCEPT ![c] = size_[c] - 1]
    /\ last' = Done("Erase", c, c, FALSE, index_pos, FALSE,
                    size_[c] > index_pos + 1 /\ Strays(heap, array_[c], index_pos, size_[c]))
    /\ UNCHANGED <<Type, live, array_, capacity_>>

\* a Reserve that also reallocates when asked for the capacity it already has
ReserveAtCapacity(c, new_capacity) ==
    /\ live[c]
    /\ IF new_capacity >= capacity_[c]
       THEN LET new_array_ == NewPtr(heap, new_capacity)
            IN /\ \E fresh \in Fresh(new_capacity, size_[c]),
                     g \in Garbage(heap, array_[c], 0, size_[c]) :
                    heap' = Delete(Move(New(heap, fresh), array_[c], 0, size_[c],
                                        new_array_, 0, g), array_[c])
               /\ array_' = [array_ EXCEPT ![c] = new_array_]
               /\ capacity_' = [capacity_ EXCEPT ![c] = new_capacity]
               /\ last' = Done("Reserve", c, c, TRUE, NoRet, FALSE,
                               Strays(heap, array_[c], 0, size_[c]))
       ELSE /\ last' = Done("Reserve", c, c, FALSE, NoRet, FALSE, FALSE)
            /\ UNCHANGED <<array_, capacity_, heap>>
    /\ UNCHANGED <<Type, live, size_>>

\* void Reserve(size_t new_capacity)
Reserve(c, new_capacity) ==
    /\ live[c]
    /\ IF new_capacity > capacity_[c]
       THEN LET new_array_ == NewPtr(heap, new_capacity)
            IN /\ \E fresh \in Fresh(new_capacity, size_[c]),
                     g \in Garbage(heap, array_[c], 0, size_[c]) :
                    heap' = Delete(Move(New(heap, fresh), array_[c], 0, size_[c],
                                        new_array_, 0, g), array_[c])
               /\ array_' = [array_ EXCEPT ![c] = new_array_]
               /\ capacity_' = [capacity_ EXCEPT ![c] = new_capacity]
               /\ last' = Done("Reserve", c, c, TRUE, NoRet, FALSE,
                               Strays(heap, array_[c], 0, size_[c]))
       ELSE /\ last' = Done("Reserve", c, c, FALSE, NoRet, FALSE, FALSE)
            /\ UNCHANGED <<array_, capacity_, heap>>
    /\ UNCHANGED <<Type, live, size_>>

\* a Clear that also forgets the capacity
ClearReleases(c) ==
    /\ live[c]
    /\ size_' = [size_ EXCEPT ![c] = 0]
    /\ capacity_' = [capacity_ EXCEPT ![c] = 0]
    /\ last' = Done("Clear", c, c, FALSE, NoRet, FALSE, FALSE)
    /\ UNCHANGED <<Type, live, array_, heap>>

\* void Clear() noexcept
Clear(c) ==
    /\ live[c]
    /\ size_' = [size_ EXCEPT ![c] = 0]
    /\ last' = Done("Clear", c, c, FALSE, NoRet, FALSE, FALSE)
    /\ UNCHANGED <<Type, live, array_, capacity_, heap>>

\* void Resize(size_t new_size)
Resize(c, new_size) ==
    /\ live[c]
    /\ IF new_size > capacity_[c]
       THEN LET new_array_ == NewPtr(heap, new_size)
            IN /\ Max(new_size, capacity_[c] * 2) <= MaxCap
               /\ \E fresh \in Fresh(new_size, new_size),
                     g \in Garbage(heap, array_[c], 0, size_[c]) :
                    LET moved == Move(New(heap, fresh), array_[c], 0, size_[c], new_array_, 0, g)
                        reset == Fill(moved, new_array_, size_[c], new_size, DefaultValue)
                    IN heap' = Delete(reset, array_[c])
               /\ array_' = [array_ EXCEPT ![c] = new_array_]
               /\ size_' = [size_ EXCEPT ![c] = new_size]
               /\ capacity_' = [capacity_ EXCEPT ![c] = Max(new_size, capacity_[c] * 2)]
               /\ last' = Done("Resize", c, c, TRUE, NoRet, FALSE,
                               Strays(heap, array_[c], 0, size_[c]))
       ELSE IF new_size > size_[c]
       THEN /\ heap' = Fill(heap, array_[c], size_[c], new_size, DefaultValue)
            /\ size_' = [size_ EXCEPT ![c] = new_size]
            /\ last' = Done("Resize", c, c, FALSE, NoRet, FALSE,
                            Strays(heap, array_[c], size_[c], new_size))
            /\ UNCHANGED <<array_, capacity_>>
       ELSE /\ size_' = [size_ EXCEPT ![c] = new_size]
            /\ last' = Done("Resize", c, c, FALSE, NoRet, FALSE, FALSE)
            /\ UNCHANGED <<array_, capacity_, heap>>
    /\ UNCHANGED <<Type, live>>

(* ---------------- element access ---------------- *)

\* Type& operator[](size_t index) noexcept, within its asserted precondition
Index(c, index) ==
    /\ live[c]
    /\ size_[c] > 0 /\ index < size_[c]
    /\ \E g \in Garbage(heap, array_[c], index, index + 1) :
         last' = Done("Index", c, c, FALSE, Load(heap, array_[c], index, g), FALSE,
                      ~InBuf(heap, array_[c], index))
    /\ UNCHANGED <<Type, live, array_, size_, capacity_, heap>>

\* Type& At(size_t index)
At(c, index) ==
    /\ live[c]
    /\ IF index >= size_[c]
       THEN last' = Done("At", c, c, FALSE, NoRet, TRUE, FALSE)
       ELSE \E g \in Garbage(heap, array_[c], index, index + 1) :
              last' = Done("At", c, c, FALSE, Load(heap, array_[c], index, g), FALSE,
                           ~InBuf(heap, array_[c], index))
    /\ UNCHANGED <<Type, live, array_, size_, capacity_, heap>>

(* ---------------- compound calls ---------------- *)

\* Erase(Insert(begin() + index_pos, value)): the position Insert returns is erased
InsertErase(c, index_pos, value) ==
    /\ live[c]
    /\ 0 <= index_pos /\ index_pos <= size_[c]
    /\ IF size_[c] = capacity_[c]
       THEN LET new_capacity_ == Grown(capacity_[c])
                new_array_ == NewPtr(heap, new_capacity_)
            IN /\ new_capacity_ <= MaxCap
               /\ \E fresh \in Fresh(new_capacity_, size_[c] + 1),
                     g \in Garbage(heap, array_[c], 0, size_[c]) :
                    LET head == Move(New(heap, fresh), array_[c], 0, index_pos, new_array_, 0, g)
                        placed == Store(head, new_array_, index_pos, value)
                        tail == Move(placed, array_[c], index_pos, size_[c],
                                     new_array_, index_pos + 1, g)
                        inserted == Delete(tail, array_[c])
                    IN \E e \in Garbage(inserted, new_array_, index_pos + 1, size_[c] + 1) :
                         /\ heap' = Move(inserted, new_array_, index_pos + 1, size_[c] + 1,
                                         new_array_, index_pos, e)
                         /\ last' = Done("InsertErase", c, c, TRUE, index_pos, FALSE,
                                         \/ Strays(heap, array_[c], 0, size_[c])
                                         \/ Strays(head, new_array_, 0, size_[c] + 1))
               /\ array_' = [array_ EXCEPT ![c] = new_array_]
               /\ capacity_' = [capacity_ EXCEPT ![c] = new_capacity_]
       ELSE /\ \E g \in Garbage(heap, array_[c], index_pos, size_[c]) :
                 LET shifted == MoveBackward(heap, array_[c], index_pos, size_[c],
                                             array_[c], size_[c] + 1, g)
                     inserted == Store(shifted, array_[c], index_pos, value)
                 IN \E e \in Garbage(inserted, array_[c], index_pos + 1, size_[c] + 1) :
                      heap' = Move(inserted, array_[c], index_pos + 1, size_[c] + 1,
                                   array_[c], index_pos, e)
            /\ last' = Done("InsertErase", c, c, FALSE, index_pos, FALSE,
                            Strays(heap, array_[c], index_pos, size_[c] + 1))
            /\ UNCHANGED <<array_, capacity_>>
    /\ UNCHANGED <<Type, live, size_>>

(* ---------------- relational operators ---------------- *)

\* bool as the integer a caller sees
AsInt(b) == IF b THEN 1 ELSE 0

\* std::equal over [i, n) of both blocks: the result and whether a read left a block
RECURSIVE EqualFrom(_, _, _, _, _, _, _)
EqualFrom(h, p, q, i, n, gp, gq) ==
    IF i = n THEN [res |-> TRUE, oob |-> FALSE]
    ELSE LET stray == ~InBuf(h, p, i) \/ ~InBuf(h, q, i)
         IN  IF Load(h, p, i, gp) # Load(h, q, i, gq)
             THEN [res |-> FALSE, oob |-> stray]
             ELSE LET rest == EqualFrom(h, p, q, i + 1, n, gp, gq)
                  IN  [res |-> rest.res, oob |-> stray \/ rest.oob]

\* std::lexicographical_compare from index i on, ranges of n1 and n2 elements
RECURSIVE LexFrom(_, _, _, _, _, _, _, _)
LexFrom(h, p, n1, q, n2, i, gp, gq) ==
    IF i = n1 \/ i = n2 THEN [res |-> i = n1 /\ i # n2, oob |-> FALSE]
    ELSE LET stray == ~InBuf(h, p, i) \/ ~InBuf(h, q, i)
             x == Load(h, p, i, gp)
             y == Load(h, q, i, gq)
         IN  IF x < y THEN [res |-> TRUE, oob |-> stray]
             ELSE IF y < x THEN [res |-> FALSE, oob |-> stray]
             ELSE LET rest == LexFrom(h, p, n1, q, n2, i + 1, gp, gq)
                  IN  [res |-> rest.res, oob |-> stray \/ rest.oob]

\* operator==: std::equal(lhs.begin(), lhs.end(), rhs.begin(), rhs.end())
eq(lhs, rhs, gl, gr) ==
    IF size_[lhs] # size_[rhs] THEN [res |-> FALSE, oob |-> FALSE]
    ELSE EqualFrom(heap, array_[lhs], array_[rhs], 0, size_[lhs], gl, gr)

\* operator!=: !(lhs == rhs)
ne(lhs, rhs, gl, gr) ==
    LET e == eq(lhs, rhs, gl, gr) IN [res |-> ~e.res, oob |-> e.oob]

\* operator<: std::lexicographical_compare
lt(lhs, rhs, gl, gr) ==
    LexFrom(heap, array_[lhs], size_[lhs], array_[rhs], size_[rhs], 0, gl, gr)

\* operator<=: lhs < rhs || lhs == rhs
le(lhs, rhs, gl, gr) ==
    LET l == lt(lhs, rhs, gl, gr)
        e == eq(lhs, rhs, gl, gr)
    IN  IF l.res THEN l ELSE [res |-> e.res, oob |-> l.oob \/ e.oob]

\* operator>: rhs < lhs
gt(lhs, rhs, gl, gr) == lt(rhs, lhs, gr, gl)

\* operator>=: lhs > rhs || lhs == rhs
ge(lhs, rhs, gl, gr) ==
    LET g == gt(lhs, rhs, gl, gr)
        e == eq(lhs, rhs, gl, gr)
    IN  IF g.res THEN g ELSE [res |-> e.res, oob |-> g.oob \/ e.oob]

\* what the slots of [0, size) outside the blocks of lhs and rhs may read as; one
\* container compared with itself reads the same memory on both sides
Reads(lhs, rhs) ==
    {r \in [l : Garbage(heap, array_[lhs], 0, size_[lhs]),
            r : Garbage(heap, array_[rhs], 0, size_[rhs])] : lhs = rhs => r.l = r.r}

\* the call returns out.res to the caller and changes no container
Returns(op, lhs, rhs, out) ==
    /\ last' = Done(op, lhs, rhs, FALSE, AsInt(out.res), FALSE, out.oob)
    /\ UNCHANGED <<Type, live, array_, size_, capacity_, heap>>

\* bool operator==(const SimpleVector& lhs, const SimpleVector& rhs)
OperatorEq(lhs, rhs) ==
    /\ live[lhs]
    /\ live[rhs]
    /\ \E g \in Reads(lhs, rhs) : Returns("==", lhs, rhs, eq(lhs, rhs, g.l, g.r))

\* bool operator!=(const SimpleVector& lhs, const SimpleVector& rhs)
OperatorNe(lhs, rhs) ==
    /\ live[lhs]
    /\ live[rhs]
    /\ \E g \in Reads(lhs, rhs) : Returns("!=", lhs, rhs, ne(lhs, rhs, g.l, g.r))

\* bool operator<(const SimpleVector& lhs, const SimpleVector& rhs)
OperatorLt(lhs, rhs) ==
    /\ live[lhs]
    /\ live[rhs]
    /\ \E g \in Reads(lhs, rhs) : Returns("<", lhs, rhs, lt(lhs, rhs, g.l, g.r))

\* bool operator<=(const SimpleVector& lhs, const SimpleVector& rhs)
OperatorLe(lhs, rhs) ==
    /\ live[lhs]
    /\ live[rhs]
    /\ \E g \in Reads(lhs, rhs) : Returns("<=", lhs, rhs, le(lhs, rhs, g.l, g.r))

\* bool operator>(const SimpleVector& lhs, const SimpleVector& rhs)
OperatorGt(lhs, rhs) ==
    /\ live[lhs]
    /\ live[rhs]
    /\ \E g \in Reads(lhs, rhs) : Returns(">", lhs, rhs, gt(lhs, rhs, g.l, g.r))

\* bool operator>=(const SimpleVector& lhs, const SimpleVector& rhs)
OperatorGe(lhs, rhs) ==
    /\ live[lhs]
    /\ live[rhs]
    /\ \E g \in Reads(lhs, rhs) : Returns(">=", lhs, rhs, ge(lhs, rhs, g.l, g.r))

(* ---------------- allocation failure: ArrayPtr's constructor throws ---------------- *)

\* the throw leaves the function before any member is assigned
Thrown(op, c, o) ==
    /\ last' = Done(op, c, o, FALSE, NoRet, TRUE, FALSE)
    /\ UNCHANGED <<Type, live, array_, size_, capacity_, heap>>

\* PushBack: new_array_(new_capacity_) throws
PushBackFails(c) ==
    /\ live[c]
    /\ size_[c] = capacity_[c]
    /\ Thrown("PushBack", c, c)

\* Insert: new_array_(new_capacity_) throws
InsertFails(c, index_pos) ==
    /\ live[c]
    /\ index_pos <= size_[c]
    /\ size_[c] = capacity_[c]
    /\ Thrown("Insert", c, c)

\* Reserve: new_array_(new_capacity) throws
ReserveFails(c, new_capacity) ==
    /\ live[c]
    /\ new_capacity > capacity_[c]
    /\ Thrown("Reserve", c, c)

\* Resize: new_array_(new_size) throws
ResizeFails(c, new_size) ==
    /\ live[c]
    /\ new_size > capacity_[c]
    /\ Thrown("Resize", c, c)

\* copy assignment: the copy constructor of tmp throws, before swap(tmp)
CopyAssignFails(c, rhs) ==
    /\ live[c]
    /\ live[rhs]
    /\ c # rhs
    /\ capacity_[rhs] > 0
    /\ Thrown("CopyAssign", c, rhs)

\* move assignment: tmp(rhs) copies, its allocation throws inside a noexcept function,
\* and std::terminate ends the program: nothing reaches the caller and every object
\* is gone with the process
MoveAssignFails(c, rhs) ==
    /\ live[c]
    /\ live[rhs]
    /\ capacity_[rhs] > 0
    /\ live' = [v \in Vecs |-> FALSE]
    /\ array_' = [v \in Vecs |-> Null]
    /\ size_' = [v \in Vecs |-> 0]
    /\ capacity_' = [v \in Vecs |-> 0]
    /\ heap' = [b \in Bufs |-> <<>>]
    /\ last' = Done("terminate", c, rhs, FALSE, NoRet, FALSE, FALSE)
    /\ UNCHANGED Type

(* ---------------- specifications ---------------- *)

Lists == UNION {[1..n -> Type] : n \in 0..MaxList}

Start(T) ==
    /\ Type = T
    /\ live = [c \in Vecs |-> FALSE]
    /\ array_ = [c \in Vecs |-> Null]
    /\ size_ = [c \in Vecs |-> 0]
    /\ capacity_ = [c \in Vecs |-> 0]
    /\ heap = [b \in Bufs |-> <<>>]
    /\ last = Done("none", "a", "a", FALSE, NoRet, FALSE, FALSE)

\* the operations of one container
Solo(c) ==
    \/ Construct(c)
    \/ \E n \in 0..MaxCap : ConstructSize(c, n)
    \/ \E n \in 0..MaxCap : ConstructReserve(c, n)
    \/ \E n \in 0..MaxCap, v \in Type : ConstructFill(c, n, v)
    \/ \E init \in Lists : ConstructList(c, init)
    \/ Destroy(c)
    \/ \E x \in Type : PushBack(c, x)
    \/ \E i \in 0..MaxCap, x \in Type : Insert(c, i, x)
    \/ PopBack(c)
    \/ \E i \in 0..MaxCap : Erase(c, i)
    \/ \E n \in 0..MaxCap : Reserve(c, n)
    \/ Clear(c)
    \/ \E n \in 0..MaxCap : Resize(c, n)
    \/ \E i \in 0..MaxCap : Index(c, i)
    \/ \E i \in 0..MaxCap : At(c, i)

\* construction of c from another container
Build(c, o) ==
    \/ CopyConstruct(c, o)
    \/ MoveConstruct(c, o)

\* assignment to c and swap, from another container or from c itself
Assign(c, o) ==
    \/ CopyAssign(c, o)
    \/ MoveAssign(c, o)
    \/ swap(c, o)

\* one container a of SimpleVector<0..MaxVal>
Init == Start(Values)

Next == Solo("a") \/ Assign("a", "a")

Spec == Init /\ [][Next]_vars

\* two containers a and b of a one-valued element type
InitPair == Start({DefaultValue})

NextPair ==
    \E c \in Vecs :
        \/ Solo(c)
        \/ \E o \in Vecs : Assign(c, o)
        \/ \E o \in Vecs \ {c} : Build(c, o)

SpecPair == InitPair /\ [][NextPair]_vars

\* one container a of SimpleVector<0..MaxVal>, with Erase called on what Insert returns
InitCompound == Start(Values)

NextCompound == Next \/ \E i \in 0..MaxCap, x \in Type : InsertErase("a", i, x)

SpecCompound == InitCompound /\ [][NextCompound]_vars

\* one container a of a one-valued element type, with Reserve requests beyond MaxCap
InitWide == Start({DefaultValue})

NextWide == Next \/ Reserve("a", MaxCap + 1)

SpecWide == InitWide /\ [][NextWide]_vars

\* two containers of a one-valued element type, any allocation of a growth step or of
\* an assignment may fail; after std::terminate the program starts anew
InitFail == Start({DefaultValue})

Grows(c) ==
    \/ \E n \in 0..MaxCap : ConstructSize(c, n)
    \/ \E x \in Type : PushBack(c, x)
    \/ \E i \in 0..MaxCap, x \in Type : Insert(c, i, x)
    \/ \E n \in 0..MaxCap : Reserve(c, n)
    \/ \E n \in 0..MaxCap : Resize(c, n)
    \/ \E o \in Vecs : CopyAssign(c, o)
    \/ \E o \in Vecs : MoveAssign(c, o)

Fails(c) ==
    \/ PushBackFails(c)
    \/ \E i \in 0..MaxCap : InsertFails(c, i)
    \/ \E n \in 0..MaxCap : ReserveFails(c, n)
    \/ \E n \in 0..MaxCap : ResizeFails(c, n)
    \/ \E o \in Vecs : CopyAssignFails(c, o)
    \/ \E o \in Vecs : MoveAssignFails(c, o)

NextFail == \E c \in Vecs : Grows(c) \/ Fails(c)

SpecFail == InitFail /\ [][NextFail]_vars

\* container a built by size, appended to and resized, container b built from a
\* literal list and appended to, both of SimpleVector<0..MaxVal>, and a compared with b
InitCmp == Start(Values)

Relational(lhs, rhs) ==
    \/ OperatorEq(lhs, rhs)
    \/ OperatorNe(lhs, rhs)
    \/ OperatorLt(lhs, rhs)
    \/ OperatorLe(lhs, rhs)
    \/ OperatorGt(lhs, rhs)
    \/ OperatorGe(lhs, rhs)

NextCmp ==
    \/ \E n \in 0..MaxCap : ConstructSize("a", n)
    \/ \E x \in Type : PushBack("a", x)
    \/ \E n \in 0..MaxCap : Resize("a", n)
    \/ \E init \in Lists : ConstructList("b", init)
    \/ \E x \in Type : PushBack("b", x)
    \/ Relational("a", "b")

SpecCmp == InitCmp /\ [][NextCmp]_vars

(* ---------------- properties ---------------- *)

\* block p of heap h holds value v in slot i
HeldIn(h, p, i, v) == InBuf(h, p, i) /\ h[p][i + 1] = v

\* the container's block holds value v in slot i, before and after a step
Holds(c, i, v) == HeldIn(heap, array_[c], i, v)
HoldsAfter(c, i, v) == HeldIn(heap', array_'[c], i, v)

\* C1: every live container has 0 <= GetSize() <= GetCapacity(), whatever
\* constructors, modifiers, copies, moves and swaps produced it.
C1_SizeWithinCapacity ==
    \A c \in Vecs : live[c] => 0 <= GetSize(c) /\ GetSize(c) <= GetCapacity(c)

\* a swap has exchanged a partly filled container with a full one
C1_Witness ==
    /\ last.op = "swap" /\ live["a"] /\ live["b"]
    /\ 0 < size_["a"] /\ size_["a"] < capacity_["a"]
    /\ 0 < size_["b"] /\ size_["b"] = capacity_["b"]

\* C2: GetCapacity() is the slot count of the block the container owns, and no
\* operation reads or writes a slot outside a block.
C2_CapacityIsAllocation ==
    /\ \A c \in Vecs : live[c] => GetCapacity(c) = Allocated(heap, array_[c])
    /\ ~last.oob

\* C3: PushBack and Insert at size == capacity == C leave capacity max(1, 2*C);
\* at size < capacity they leave the capacity as it was.
C3_GrowthLaw ==
    [][last'.op \in {"PushBack", "Insert"} =>
         LET c == last'.self
         IN capacity_'[c] = IF size_[c] = capacity_[c]
                            THEN Max(1, 2 * capacity_[c])
                            ELSE capacity_[c]]_vars

\* a PushBack or Insert on a full container of capacity 2 has grown it to 4
C3_Witness ==
    /\ last.op \in {"PushBack", "Insert"} /\ last.realloc
    /\ size_[last.self] = 3 /\ capacity_[last.self] = 4

\* slots [first, lst) of c hold afterwards, moved by shift, what they held before
Kept(c, first, lst, shift) ==
    \A i \in first..(lst - 1) : \E v \in Type : Holds(c, i, v) /\ HoldsAfter(c, i + shift, v)

\* the first n slots of container to hold afterwards what those of from held before
Carried(from, to, n) ==
    \A i \in 0..(n - 1) : \E v \in Type : Holds(from, i, v) /\ HoldsAfter(to, i, v)

\* C4: PushBack(x) increases GetSize() by 1, keeps the elements at [0, old size)
\* and makes the element at index old size equal to x, with or without growth.
C4_PushBackAppends ==
    [][\A c \in Vecs, x \in Type :
         PushBack(c, x) => /\ size_'[c] = size_[c] + 1
                           /\ Kept(c, 0, size_[c], 0)
                           /\ HoldsAfter(c, size_[c], x)]_vars

\* C5: after b = std::move(a) with a and b distinct, a has size 0 and capacity 0
\* and b holds the sequence a held before.
C5_MoveAssignEmptiesSource ==
    [][\A b \in Vecs, a \in Vecs :
         (a # b /\ MoveAssign(b, a)) => /\ size_'[a] = 0
                                        /\ capacity_'[a] = 0
                                        /\ size_'[b] = size_[a]
                                        /\ Carried(a, b, size_[a])]_vars

\* C6: SimpleVector b(std::move(a)) gives b the size, capacity, block and so the
\* elements a had, and leaves a with size 0, capacity 0 and no block.
C6_MoveConstructSteals ==
    [][last'.op = "MoveConstruct" =>
         LET b == last'.self
             a == last'.other
         IN /\ size_'[b] = size_[a] /\ capacity_'[b] = capacity_[a]
            /\ array_'[b] = array_[a] /\ heap' = heap
            /\ size_'[a] = 0 /\ capacity_'[a] = 0 /\ array_'[a] = Null]_vars

\* a partly filled container has been moved into a new one
C6_Witness ==
    /\ last.op = "MoveConstruct"
    /\ 0 < size_[last.self] /\ size_[last.self] < capacity_[last.self]
    /\ array_[last.self] # Null /\ array_[last.other] = Null
    /\ size_[last.other] = 0 /\ capacity_[last.other] = 0

Mutators == {"PushBack", "Insert", "PopBack", "Erase", "Reserve", "Clear", "Resize"}

\* C7: a copy (constructed or assigned) has the source's size, capacity and elements
\* in a block of its own; mutating either container leaves the other's size,
\* capacity and elements alone; assigning a container to itself changes nothing.
C7_CopyIndependent ==
    [][/\ \A c \in Vecs, o \in Vecs :
            (c # o /\ last'.self = c /\ last'.other = o
                   /\ last'.op \in {"CopyConstruct", "CopyAssign"}) =>
                 /\ size_'[c] = size_[o] /\ capacity_'[c] = capacity_[o]
                 /\ Carried(o, c, size_[o])
                 /\ array_'[c] = Null \/ array_'[c] # array_'[o]
                 /\ size_'[o] = size_[o] /\ capacity_'[o] = capacity_[o]
                 /\ Kept(o, 0, size_[o], 0)
       /\ (last'.op = "CopyAssign" /\ last'.self = last'.other) =>
            UNCHANGED <<array_, size_, capacity_, heap>>
       /\ \A c \in Vecs, o \in Vecs :
            (c # o /\ live[o] /\ last'.self = c /\ last'.op \in Mutators) =>
                 /\ size_'[o] = size_[o] /\ capacity_'[o] = capacity_[o]
                 /\ array_'[o] = array_[o]
                 /\ array_[o] # Null => heap'[array_[o]] = heap[array_[o]]]_vars

\* C8: At(i) throws out_of_range for every i >= GetSize() and returns the element
\* at index i for every i < GetSize(); it changes nothing in either case.
C8_AtChecked ==
    [][\A c \in Vecs, i \in 0..MaxCap :
         At(c, i) => /\ UNCHANGED <<array_, size_, capacity_, heap>>
                     /\ IF i >= size_[c]
                        THEN last'.threw
                        ELSE ~last'.threw /\ Holds(c, i, last'.ret)]_vars

\* C9: Insert(begin() + i, v) yields s[0..i) ++ [v] ++ s[i..size), one element
\* more, and returns position i of the current block, in both branches.
C9_InsertPlaces ==
    [][\A c \in Vecs, i \in 0..MaxCap, v \in Type :
         Insert(c, i, v) => /\ size_'[c] = size_[c] + 1
                            /\ Kept(c, 0, i, 0)
                            /\ HoldsAfter(c, i, v)
                            /\ Kept(c, i, size_[c], 1)
                            /\ last'.ret = i]_vars

\* C10: Erase(begin() + i) yields s[0..i) ++ s[i+1..size), one element less, the
\* same capacity, and returns position i, which is end() exactly when the
\* erased element was the last.
C10_EraseRemoves ==
    [][\A c \in Vecs, i \in 0..MaxCap :
         Erase(c, i) => /\ size_'[c] = size_[c] - 1
                        /\ capacity_'[c] = capacity_[c]
                        /\ Kept(c, 0, i, 0)
                        /\ Kept(c, i + 1, size_[c], -1)
                        /\ last'.ret = i
                        /\ (last'.ret = size_'[c]) <=> (i = size_[c] - 1)]_vars

\* C11: erasing at the position Insert(begin() + i, v) returned restores the
\* logical sequence and the size; the capacity may have grown.
C11_InsertEraseIdentity ==
    [][\A c \in Vecs, i \in 0..MaxCap, v \in Type :
         InsertErase(c, i, v) => /\ size_'[c] = size_[c]
                                 /\ Kept(c, 0, size_[c], 0)
                                 /\ capacity_'[c] >= capacity_[c]]_vars

\* C12: Resize(n) yields size n, keeps s[0..min(size, n)) and makes every element
\* at an index in [old size, n) the default value, so no stale value reappears.
C12_ResizeDefaults ==
    [][\A c \in Vecs, n \in 0..MaxCap :
         Resize(c, n) => /\ size_'[c] = n
                         /\ Kept(c, 0, IF size_[c] < n THEN size_[c] ELSE n, 0)
                         /\ \A i \in size_[c]..(n - 1) : HoldsAfter(c, i, DefaultValue)]_vars

\* C13: Resize(n) with n > capacity reallocates and sets the capacity to
\* max(n, 2 * old capacity); with n <= capacity it leaves the capacity unchanged.
C13_ResizeCapacity ==
    [][\A c \in Vecs, n \in 0..MaxCap :
         (last'.op = "Resize" /\ Resize(c, n)) =>
             IF n > capacity_[c]
             THEN /\ last'.realloc
                  /\ capacity_'[c] = IF n >= 2 * capacity_[c] THEN n ELSE 2 * capacity_[c]
             ELSE /\ ~last'.realloc
                  /\ capacity_'[c] = capacity_[c]]_vars

\* a Resize(3) of a container of capacity 2 has reallocated and left capacity 4
C13_Witness ==
    /\ last.op = "Resize" /\ last.realloc
    /\ size_[last.self] = 3 /\ capacity_[last.self] = 4

\* C14: Reserve(n) with n > capacity sets the capacity to n, otherwise it changes
\* nothing; the size and the logical sequence are unchanged either way.
C14_ReserveKeeps ==
    [][\A c \in Vecs, n \in 0..(MaxCap + 1) :
         Reserve(c, n) =>
             IF n > capacity_[c]
             THEN /\ capacity_'[c] = n
                  /\ size_'[c] = size_[c]
                  /\ Kept(c, 0, size_[c], 0)
             ELSE UNCHANGED <<array_, size_, capacity_, heap>>]_vars

\* C15: as claimed, no operation on a container other than being the source of a
\* move leaves GetCapacity() smaller than it was.
C15_CapacityNeverShrinks ==
    [][\A c \in Vecs :
         (live[c] /\ live'[c] /\ ~(last'.op = "MoveConstruct" /\ last'.other = c)) =>
             capacity_'[c] >= capacity_[c]]_vars

\* C15 as amended: PushBack, Insert, Erase, PopBack, Reserve, Resize and Clear never
\* leave GetCapacity() smaller; the target of a copy- or move-assignment takes the
\* capacity of the source and swap exchanges the two capacities, whichever is larger.
C15_CapacityKeptByModifiers ==
    [][\A c \in Vecs, o \in Vecs :
         (last'.self = c /\ last'.other = o) =>
             /\ last'.op \in Mutators => capacity_'[c] >= capacity_[c]
             /\ (last'.op \in {"CopyAssign", "MoveAssign"} /\ ~last'.threw) =>
                    capacity_'[c] = capacity_[o]
             /\ last'.op = "swap" =>
                    capacity_'[c] = capacity_[o] /\ capacity_'[o] = capacity_[c]]_vars

\* a Clear has emptied a container and left it its capacity
C15_Witness ==
    /\ last.op = "Clear" /\ live["a"] /\ live["b"]
    /\ size_[last.self] = 0 /\ capacity_[last.self] = 4

\* C16: when the allocation of a copy-assignment, a move-assignment or a growing
\* PushBack, Insert, Reserve or Resize fails, the caller receives the allocation error
\* and the container keeps its buffer, size, capacity and elements.
C16_FailureKeepsState ==
    [][\A c \in Vecs, o \in Vecs, n \in 0..MaxCap :
         (\/ PushBackFails(c) \/ InsertFails(c, n) \/ ReserveFails(c, n) \/ ResizeFails(c, n)
          \/ CopyAssignFails(c, o) \/ MoveAssignFails(c, o)) =>
             /\ last'.threw
             /\ UNCHANGED <<array_, size_, capacity_, heap>>]_vars

\* element i of the logical sequence of c; a slot outside the block holds none
Elem(c, i) == IF InBuf(heap, array_[c], i) THEN heap[array_[c]][i + 1] ELSE -1

\* the logical sequences of c and o are equal
SeqEqual(c, o) ==
    /\ size_[c] = size_[o]
    /\ \A i \in 0..(size_[c] - 1) : Elem(c, i) = Elem(o, i)

\* the logical sequence of c is lexicographically less than that of o
SeqLess(c, o) ==
    \E k \in 0..size_[c] :
        /\ k <= size_[o]
        /\ \A i \in 0..(k - 1) : Elem(c, i) = Elem(o, i)
        /\ \/ k = size_[c] /\ k < size_[o]
           \/ k < size_[c] /\ k < size_[o] /\ Elem(c, k) < Elem(o, k)

\* what lexicographic comparison of the logical sequences gives for an operator
Expected(op, c, o) ==
    CASE op = "==" -> SeqEqual(c, o)
      [] op = "!=" -> ~SeqEqual(c, o)
      [] op = "<"  -> SeqLess(c, o)
      [] op = "<=" -> SeqLess(c, o) \/ SeqEqual(c, o)
      [] op = ">"  -> SeqLess(o, c)
      [] op = ">=" -> SeqLess(o, c) \/ SeqEqual(c, o)

\* C17: every relational operator returns what lexicographic comparison of the two
\* logical sequences [0, size) gives, reading no slot outside them, and for every pair
\* of containers exactly one of a < b, a == b, a > b holds.
C17_Lexicographic ==
    /\ [][\A c \in Vecs, o \in Vecs, op \in {"==", "!=", "<", "<=", ">", ">="} :
            (last'.op = op /\ last'.self = c /\ last'.other = o) =>
                /\ ~last'.oob
                /\ last'.ret = AsInt(Expected(op, c, o))]_vars
    /\ [](\A c \in Vecs, o \in Vecs :
            (live[c] /\ live[o]) =>
                \A g \in Reads(c, o) :
                    AsInt(lt(c, o, g.l, g.r).res) + AsInt(eq(c, o, g.l, g.r).res)
                        + AsInt(gt(c, o, g.l, g.r).res) = 1)

\* C18: the default constructor gives size 0 and capacity 0; SimpleVector(N) gives
\* size = capacity = N with N default values; SimpleVector(N, V) gives size =
\* capacity = N with N copies of V; SimpleVector(Reserve(N)) gives size 0 and
\* capacity N; a literal list gives size = capacity = its length, elements in order.
C18_ConstructorPostconditions ==
    [][\A c \in Vecs :
         last'.self = c =>
             /\ last'.op = "Construct" => size_'[c] = 0 /\ capacity_'[c] = 0
             /\ last'.op = "ConstructSize" =>
                  \A n \in 0..MaxCap :
                      ConstructSize(c, n) =>
                          /\ size_'[c] = n /\ capacity_'[c] = n
                          /\ \A i \in 0..(n - 1) : HoldsAfter(c, i, DefaultValue)
             /\ last'.op = "ConstructFill" =>
                  \A n \in 0..MaxCap, v \in Type :
                      ConstructFill(c, n, v) =>
                          /\ size_'[c] = n /\ capacity_'[c] = n
                          /\ \A i \in 0..(n - 1) : HoldsAfter(c, i, v)
             /\ last'.op = "ConstructReserve" =>
                  \A n \in 0..MaxCap :
                      ConstructReserve(c, n) => size_'[c] = 0 /\ capacity_'[c] = n
             /\ last'.op = "ConstructList" =>
                  \A init \in Lists :
                      ConstructList(c, init) =>
                          /\ size_'[c] = Len(init) /\ capacity_'[c] = Len(init)
                          /\ \A i \in 1..Len(init) : HoldsAfter(c, i - 1, init[i])]_vars

\* SimpleVector(3, 1) has built a container of three elements 1
C18_Witness ==
    /\ last.op = "ConstructFill"
    /\ size_[last.self] = 3 /\ capacity_[last.self] = 3
    /\ \A i \in 0..2 : Holds(last.self, i, 1)

\* the step kept the block of c: same buffer, same slot count, same capacity
SameBuffer(c) ==
    /\ ~last'.realloc
    /\ array_'[c] = array_[c]
    /\ capacity_'[c] = capacity_[c]
    /\ Allocated(heap', array_[c]) = Allocated(heap, array_[c])

\* C19: Clear, PopBack, Erase, Resize(n) and Reserve(n) with n <= capacity, and
\* PushBack and Insert at size < capacity keep the capacity and the owned buffer;
\* Clear and PopBack change only the size, to 0 and by -1, and no element.
C19_NoGrowthNoRealloc ==
    [][\A c \in Vecs :
         last'.self = c =>
             /\ last'.op \in {"Clear", "PopBack", "Erase"} => SameBuffer(c)
             /\ (last'.op = "Resize" /\ size_'[c] <= capacity_[c]) => SameBuffer(c)
             /\ \A n \in 0..MaxCap :
                  (last'.op = "Reserve" /\ n <= capacity_[c] /\ Reserve(c, n)) => SameBuffer(c)
             /\ (last'.op \in {"PushBack", "Insert"} /\ size_[c] < capacity_[c]) =>
                    SameBuffer(c)
             /\ last'.op = "Clear" => size_'[c] = 0 /\ heap' = heap
             /\ last'.op = "PopBack" => size_'[c] = size_[c] - 1 /\ heap' = heap]_vars

\* a PushBack or Insert has filled the last free slot of a block without reallocating
C19_Witness ==
    /\ last.op \in {"PushBack", "Insert"} /\ ~last.realloc
    /\ size_[last.self] = capacity_[last.self] /\ capacity_[last.self] >= 2

\* no two live containers own the same block
Exclusive ==
    \A c \in Vecs, o \in Vecs :
        (c # o /\ live[c] /\ live[o] /\ array_[c] # Null) => array_[c] # array_[o]

\* C20: whatever copy and move constructions, assignments, swaps and growth steps
\* have run, no two live containers own the same buffer, and swap exchanges the
\* buffer, size and capacity of the two containers and changes nothing else.
C20_ExclusiveOwnership ==
    /\ []Exclusive
    /\ [][\A c \in Vecs, o \in Vecs :
            (last'.op = "swap" /\ last'.self = c /\ last'.other = o) =>
                /\ array_'[c] = array_[o] /\ array_'[o] = array_[c]
                /\ size_'[c] = size_[o] /\ size_'[o] = size_[c]
                /\ capacity_'[c] = capacity_[o] /\ capacity_'[o] = capacity_[c]
                /\ heap' = heap /\ live' = live]_vars

\* two containers owning different blocks of different sizes have been swapped
C20_Witness ==
    /\ last.op = "swap" /\ last.self # last.other
    /\ array_["a"] # Null /\ array_["b"] # Null /\ array_["a"] # array_["b"]
    /\ size_["a"] # size_["b"] /\ capacity_["a"] # capacity_["b"]

====
